---- MODULE Spec2Model ----
(***************************************************************************)
(* Procurement Insights API: the POST /generate-insights request handler   *)
(* (app/main.py), the LLM service with its response repair pipeline        *)
(* (app/llm_service.py) and the request/response models (app/models.py).   *)
(*                                                                         *)
(* A text is a sequence of lexemes.  Punctuation, whitespace, backticks    *)
(* and bare letters are single characters; a JSON literal (a quoted        *)
(* string, a number, null) is one lexeme written as it appears in the      *)
(* text; the literals of the model hold no brace and no backtick.          *)
(* Numbers are held in hundredths (0.85 is 85).                            *)
(***************************************************************************)
EXTENDS Integers, Sequences, FiniteSets, TLC

VARIABLES pc, req, calls, gen, out,
          rstage, rparts, rtext, rparsed,
          bstage, bcategory, bdata, bresult

vars == <<pc, req, calls, gen, out, rstage, rparts, rtext, rparsed,
          bstage, bcategory, bdata, bresult>>

hvars == <<pc, req, calls, gen, out>>
rvars == <<rstage, rparts, rtext, rparsed>>
bvars == <<bstage, bcategory, bdata, bresult>>

(***************************************************************************)
(* Bounds of the model.                                                    *)
(***************************************************************************)
NumRequests == 2
MaxSuppliers == 2
MaxPad == 1
MaxBraceLen == 3

(***************************************************************************)
(* Text primitives (Python str methods used by the service).               *)
(***************************************************************************)
WS == {" ", "\n"}

RECURSIVE LStrip(_)
LStrip(t) == IF t # <<>> /\ Head(t) \in WS THEN LStrip(Tail(t)) ELSE t

RECURSIVE RStrip(_)
RStrip(t) ==
    IF t # <<>> /\ t[Len(t)] \in WS THEN RStrip(SubSeq(t, 1, Len(t) - 1)) ELSE t

Strip(t) == RStrip(LStrip(t))

StartsWith(t, p) == Len(t) >= Len(p) /\ SubSeq(t, 1, Len(p)) = p

EndsWith(t, p) == Len(t) >= Len(p) /\ SubSeq(t, Len(t) - Len(p) + 1, Len(t)) = p

Count(t, c) == Cardinality({i \in 1..Len(t) : t[i] = c})

RECURSIVE Repeat(_, _)
Repeat(c, n) == IF n <= 0 THEN <<>> ELSE <<c>> \o Repeat(c, n - 1)

\* The backtick character (a string of the module cannot hold it literally).
Tick == "<backtick>"

Fence == <<Tick, Tick, Tick>>
FenceJson == Fence \o <<"j", "s", "o", "n">>

(***************************************************************************)
(* The truncation heuristic of generate_insights: braces are counted on    *)
(* the trimmed text, before the code fences are stripped.                  *)
(***************************************************************************)
TruncationFixCountingBrackets(t) ==
    LET opens == Count(t, "{") + Count(t, "[")
        closes == Count(t, "}") + Count(t, "]")
    IN  IF ~EndsWith(t, <<"}">>) /\ opens > closes
        THEN t \o Repeat("}", opens - closes)
        ELSE t

TruncationFix(t) ==
    LET open_braces == Count(t, "{")
        close_braces == Count(t, "}")
    IN  IF ~EndsWith(t, <<"}">>) /\ open_braces > close_braces
        THEN t \o Repeat("}", open_braces - close_braces)
        ELSE t

(***************************************************************************)
(* _clean_json_response: strip, drop an opening fence, drop a closing      *)
(* fence, strip.                                                           *)
(***************************************************************************)
CleanJsonResponseUnguarded(text) ==
    LET t1 == Strip(text)
        t2 == IF StartsWith(t1, FenceJson) THEN SubSeq(t1, 8, Len(t1))
              ELSE IF StartsWith(t1, Fence) THEN SubSeq(t1, 4, Len(t1))
              ELSE t1
        t3 == SubSeq(t2, 1, Len(t2) - 3)
    IN  Strip(t3)

CleanJsonResponse(text) ==
    LET t1 == Strip(text)
        t2 == IF StartsWith(t1, FenceJson) THEN SubSeq(t1, 8, Len(t1))
              ELSE IF StartsWith(t1, Fence) THEN SubSeq(t1, 4, Len(t1))
              ELSE t1
        t3 == IF EndsWith(t2, Fence) THEN SubSeq(t2, 1, Len(t2) - 3) ELSE t2
    IN  Strip(t3)

(***************************************************************************)
(* JSON literals and json.loads.                                           *)
(***************************************************************************)
StrLitText ==
    ( "\"a\"" :> "a" @@ "\"b\"" :> "b" @@ "\"c\"" :> "c"
   @@ "\"category\"" :> "category"
   @@ "\"overall_risk_level\"" :> "overall_risk_level"
   @@ "\"key_risks\"" :> "key_risks"
   @@ "\"negotiation_levers\"" :> "negotiation_levers"
   @@ "\"recommended_actions_next_90_days\"" :> "recommended_actions_next_90_days"
   @@ "\"confidence_score\"" :> "confidence_score"
   @@ "\"Steel\"" :> "Steel" @@ "\"\"" :> "" @@ "\" \"" :> " "
   @@ "\"Low\"" :> "Low" @@ "\"High\"" :> "High" @@ "\"Extreme\"" :> "Extreme"
   @@ "\"abc\"" :> "abc" @@ "\"0.85\"" :> "0.85"
   @@ "\" lever \"" :> " lever " )

StrLits == DOMAIN StrLitText

NumText ==
    ( -300 :> "-3" @@ 0 :> "0" @@ 50 :> "0.5" @@ 70 :> "0.7" @@ 85 :> "0.85"
   @@ 98 :> "0.98" @@ 99 :> "0.99" @@ 100 :> "1" @@ 150 :> "1.5" @@ 200 :> "2" )

NumLits == {NumText[n] : n \in DOMAIN NumText}

NumVal(x) == CHOOSE n \in DOMAIN NumText : NumText[n] = x

ScalarLits == StrLits \cup NumLits \cup {"null", "true", "false"}

NoWs(t) == SelectSeq(t, LAMBDA x : x \notin WS)

\* The JSON grammar as a pushdown scan over the lexemes between whitespace.
\* st: "value" a value is expected; "firstkey"/"firstval" right after an
\* opener; "key" after a comma in an object; "colon"; "after" a value.
RECURSIVE Scan(_, _, _, _)
Scan(c, i, stack, st) ==
    IF i > Len(c) THEN stack = <<>> /\ st = "after"
    ELSE
      LET x == c[i]
          top == IF stack = <<>> THEN "" ELSE stack[Len(stack)]
          pop == SubSeq(stack, 1, Len(stack) - 1)
          value ==
              IF x \in ScalarLits THEN Scan(c, i + 1, stack, "after")
              ELSE IF x = "{" THEN Scan(c, i + 1, Append(stack, "{"), "firstkey")
              ELSE IF x = "[" THEN Scan(c, i + 1, Append(stack, "["), "firstval")
              ELSE FALSE
      IN  CASE st = "value" -> value
            [] st = "firstval" ->
                 IF x = "]" THEN Scan(c, i + 1, pop, "after") ELSE value
            [] st = "firstkey" ->
                 IF x = "}" THEN Scan(c, i + 1, pop, "after")
                 ELSE x \in StrLits /\ Scan(c, i + 1, stack, "colon")
            [] st = "key" -> x \in StrLits /\ Scan(c, i + 1, stack, "colon")
            [] st = "colon" -> x = ":" /\ Scan(c, i + 1, stack, "value")
            [] st = "after" ->
                 IF stack = <<>> THEN FALSE
                 ELSE IF x = "," THEN
                     Scan(c, i + 1, stack, IF top = "{" THEN "key" ELSE "value")
                 ELSE IF x = "}" /\ top = "{" THEN Scan(c, i + 1, pop, "after")
                 ELSE IF x = "]" /\ top = "[" THEN Scan(c, i + 1, pop, "after")
                 ELSE FALSE

IsJson(t) == Scan(NoWs(t), 1, <<>>, "value")

\* json.loads: the decoded value is held in canonical form, the lexemes of
\* the document without the insignificant whitespace.
JsonLoads(t) ==
    IF IsJson(t) THEN [ok |-> TRUE, value |-> NoWs(t)]
    ELSE [ok |-> FALSE, value |-> <<>>]

(***************************************************************************)
(* Decoded JSON values.  A value is [t, s, n, l]: its type, its text (a     *)
(* string's content, a number's decimal text), its number in hundredths and *)
(* its items when it is a list.  A list item is held as [t, s, n]; of a     *)
(* nested object only whether it is empty is kept.                         *)
(***************************************************************************)
Fields ==
    {"category", "overall_risk_level", "key_risks", "negotiation_levers",
     "recommended_actions_next_90_days", "confidence_score"}

ListFields == <<"key_risks", "negotiation_levers", "recommended_actions_next_90_days">>

RiskLevels == {"Low", "Medium", "High"}

Absent == [t |-> "absent", s |-> "", n |-> 0, l |-> <<>>]
Null == [t |-> "null", s |-> "", n |-> 0, l |-> <<>>]
Str(x) == [t |-> "str", s |-> x, n |-> 0, l |-> <<>>]
Num(k) == [t |-> "num", s |-> NumText[k], n |-> k, l |-> <<>>]
Bool(b) == [t |-> "bool", s |-> IF b THEN "True" ELSE "False",
            n |-> IF b THEN 100 ELSE 0, l |-> <<>>]
List(items) == [t |-> "list", s |-> "", n |-> 0, l |-> items]
Obj(items) == [t |-> "obj", s |-> "", n |-> 0, l |-> items]

Item(v) == [t |-> v.t, s |-> v.s, n |-> v.n]

ScalarOf(x) ==
    CASE x = "null" -> Null
      [] x = "true" -> Bool(TRUE)
      [] x = "false" -> Bool(FALSE)
      [] x \in NumLits -> Num(NumVal(x))
      [] x \in StrLits -> Str(StrLitText[x])

\* The index of the last lexeme of the value that starts at c[i].
RECURSIVE SkipTo(_, _, _)
SkipTo(c, i, d) ==
    LET d2 == IF c[i] \in {"{", "["} THEN d + 1
              ELSE IF c[i] \in {"}", "]"} THEN d - 1
              ELSE d
    IN  IF d2 = 0 THEN i ELSE SkipTo(c, i + 1, d2)

ValueEnd(c, i) == SkipTo(c, i, 0)

RECURSIVE Items(_, _, _)
Items(c, i, j) ==
    IF i >= j THEN <<>>
    ELSE LET e == ValueEnd(c, i)
             item == IF e = i THEN Item(ScalarOf(c[i]))
                     ELSE IF c[i] = "[" THEN Item(List(<<>>))
                     ELSE Item(Obj(<<>>))
         IN  <<item>> \o Items(c, e + 2, j)

DecodeValue(c, i) ==
    LET e == ValueEnd(c, i)
    IN  IF e = i THEN ScalarOf(c[i])
        ELSE IF c[i] = "[" THEN List(Items(c, i + 1, e))
        ELSE Obj(IF e = i + 1 THEN <<>> ELSE <<Item(Null)>>)

\* The members of the object c, from the key at c[i] on; a later duplicate
\* of a key replaces the earlier one (Python dict).
RECURSIVE Members(_, _, _)
Members(c, i, d) ==
    IF c[i] = "}" THEN d
    ELSE LET k == StrLitText[c[i]]
             e == ValueEnd(c, i + 2)
             d2 == IF k \in Fields THEN [d EXCEPT ![k] = DecodeValue(c, i + 2)] ELSE d
         IN  Members(c, IF c[e + 1] = "," THEN e + 2 ELSE e + 1, d2)

IsObject(v) == v # <<>> /\ v[1] = "{"

ToDict(v) == Members(v, 2, [f \in Fields |-> Absent])

(***************************************************************************)
(* Python semantics the backfill step relies on.                           *)
(***************************************************************************)
\* bool(v)
Truthy(v) ==
    CASE v.t = "str" -> v.s # ""
      [] v.t = "num" -> v.n # 0
      [] v.t = "bool" -> v.n # 0
      [] v.t \in {"list", "obj"} -> v.l # <<>>
      [] OTHER -> FALSE

BlankStrs == {"", " "}

\* str.strip() on the strings of the model
StripStr(x) ==
    CASE x = " " -> ""
      [] x = " lever " -> "lever"
      [] OTHER -> x

\* A fragment of message text and where it comes from: "lit" a literal of
\* the HTTP layer, "req" a value of the request, "exc" the text of an
\* internal exception, "raw" a piece of the generator's output.
Frag(txt, src) == [txt |-> txt, src |-> src]

NoExc == [type |-> "", msg |-> <<>>]
Exc(type, msg) == [type |-> type, msg |-> msg]

\* float(v): [ok, n, exc]
Float(v) ==
    CASE v.t \in {"num", "bool"} -> [ok |-> TRUE, n |-> v.n, exc |-> NoExc]
      [] v.t = "str" /\ v.s \in NumLits ->
           [ok |-> TRUE, n |-> NumVal(v.s), exc |-> NoExc]
      [] v.t = "str" /\ v.s \notin NumLits ->
           [ok |-> FALSE, n |-> 0,
            exc |-> Exc("ValueError",
                        <<Frag("could not convert string to float: ", "exc"),
                          Frag(v.s, "raw")>>)]
      [] OTHER ->
           [ok |-> FALSE, n |-> 0,
            exc |-> Exc("TypeError",
                        <<Frag("float() argument must be a string or a real number", "exc")>>)]

Min(a, b) == IF a <= b THEN a ELSE b
Max(a, b) == IF a >= b THEN a ELSE b

ConfDefault == 85
ConfMin == 70
ConfMax == 98

Placeholder(list_field) ==
    CASE list_field = "key_risks" -> "Analysis pending for key risks"
      [] list_field = "negotiation_levers" -> "Analysis pending for negotiation levers"
      [] list_field = "recommended_actions_next_90_days" ->
           "Analysis pending for recommended actions next 90 days"

ClampNoUpper(score) == Max(ConfMin, score)

Clamp(score) == Max(ConfMin, Min(ConfMax, score))

(***************************************************************************)
(* _validate_and_fix_response(data, category): [ok, data, exc].            *)
(***************************************************************************)
FixCategory(data, category) ==
    IF data["category"] = Absent \/ ~Truthy(data["category"])
    THEN [data EXCEPT !["category"] = Str(category)]
    ELSE data

FixRiskLevel(data) ==
    IF data["overall_risk_level"] = Absent
    THEN [data EXCEPT !["overall_risk_level"] = Str("Medium")]
    ELSE IF ~(data["overall_risk_level"].t = "str"
              /\ data["overall_risk_level"].s \in {"Low", "Medium", "High"})
         THEN [data EXCEPT !["overall_risk_level"] = Str("Medium")]
         ELSE data

FixList(data, list_field) ==
    IF data[list_field] = Absent \/ data[list_field].t # "list"
       \/ Len(data[list_field].l) = 0
    THEN [data EXCEPT ![list_field] = List(<<Item(Str(Placeholder(list_field)))>>)]
    ELSE data

FixLists(data) == FixList(FixList(FixList(data, ListFields[1]), ListFields[2]), ListFields[3])

ValidateAndFixResponse(data, category) ==
    LET d3 == FixLists(FixRiskLevel(FixCategory(data, category)))
    IN  IF d3["confidence_score"] = Absent
        THEN [ok |-> TRUE, data |-> [d3 EXCEPT !["confidence_score"] = Num(ConfDefault)],
              exc |-> NoExc]
        ELSE LET score == Float(d3["confidence_score"])
             IN  IF score.ok
                 THEN [ok |-> TRUE,
                       data |-> [d3 EXCEPT !["confidence_score"] = Num(Clamp(score.n))],
                       exc |-> NoExc]
                 ELSE [ok |-> FALSE, data |-> d3, exc |-> score.exc]

(***************************************************************************)
(* The construction of InsightsResponse from the sanitized data:           *)
(* [ok, resp, exc].                                                        *)
(***************************************************************************)
\* A str field: strings pass, numbers are turned into their text.
CoerceStr(v) ==
    IF v.t \in {"str", "num", "bool"} THEN [ok |-> TRUE, s |-> v.s]
    ELSE [ok |-> FALSE, s |-> ""]

\* List[str] with min_items=1 and validate_non_empty_lists
ListOk(v) ==
    /\ v.t = "list"
    /\ Len(v.l) >= 1
    /\ \A i \in 1..Len(v.l) : CoerceStr(v.l[i]).ok /\ CoerceStr(v.l[i]).s \notin BlankStrs

ListOut(v) == [i \in 1..Len(v.l) |-> StripStr(CoerceStr(v.l[i]).s)]

NoInsights ==
    [category |-> "", overall_risk_level |-> "", key_risks |-> <<>>,
     negotiation_levers |-> <<>>, recommended_actions_next_90_days |-> <<>>,
     confidence_score |-> 0]

Construct(data) ==
    LET score == Float(data["confidence_score"])
        ok == /\ CoerceStr(data["category"]).ok
              /\ data["overall_risk_level"].t = "str"
              /\ data["overall_risk_level"].s \in RiskLevels
              /\ \A i \in 1..Len(ListFields) : ListOk(data[ListFields[i]])
              /\ score.ok /\ score.n >= 0 /\ score.n <= 100
    IN  IF ok
        THEN [ok |-> TRUE,
              resp |-> [category |-> CoerceStr(data["category"]).s,
                        overall_risk_level |-> data["overall_risk_level"].s,
                        key_risks |-> ListOut(data["key_risks"]),
                        negotiation_levers |-> ListOut(data["negotiation_levers"]),
                        recommended_actions_next_90_days |->
                            ListOut(data["recommended_actions_next_90_days"]),
                        confidence_score |-> score.n],
              exc |-> NoExc]
        ELSE [ok |-> FALSE, resp |-> NoInsights,
              exc |-> Exc("ValidationError",
                          <<Frag("validation error for InsightsResponse", "exc")>>)]

(***************************************************************************)
(* LLMService.generate_insights after the generation call: trim,           *)
(* truncation heuristic, fence strip, parse, backfill, construct; and the  *)
(* except clauses that wrap every failure.                                 *)
(***************************************************************************)
RepairedText(response_text) == CleanJsonResponse(TruncationFix(Strip(response_text)))

WrapServiceError(e) ==
    CASE e.type = "JSONDecodeError" ->
           Exc("Exception", <<Frag("Failed to parse LLM response as JSON: ", "exc")>> \o e.msg)
      [] e.type = "AttributeError" ->
           Exc("Exception", <<Frag("Error accessing response attributes: ", "exc")>> \o e.msg)
      [] OTHER ->
           Exc("Exception", <<Frag("Error generating insights: ", "exc")>> \o e.msg)

Fail(e) == [ok |-> FALSE, resp |-> NoInsights, exc |-> WrapServiceError(e)]

Repair(response_text, category) ==
    LET parsed == JsonLoads(RepairedText(response_text))
    IN  IF ~parsed.ok
        THEN Fail(Exc("JSONDecodeError", <<Frag("Expecting value", "exc")>>))
        ELSE IF ~IsObject(parsed.value)
        THEN Fail(Exc("TypeError", <<Frag("object does not support item assignment", "exc")>>))
        ELSE LET fixed == ValidateAndFixResponse(ToDict(parsed.value), category)
             IN  IF ~fixed.ok THEN Fail(fixed.exc)
                 ELSE LET built == Construct(fixed.data)
                      IN  IF built.ok THEN built ELSE Fail(built.exc)

(***************************************************************************)
(* The request models: SupplierInput and InsightsRequest.                  *)
(***************************************************************************)
Err(loc, msg) == [field |-> loc, msg |-> msg]

StrFieldErrors(loc, v, whitespace_msg) ==
    IF v = "" THEN <<Err(loc, "ensure this value has at least 1 characters")>>
    ELSE IF StripStr(v) = "" THEN <<Err(loc, whitespace_msg)>>
    ELSE <<>>

SupplierErrorsNoSpendCheck(sup, loc) ==
    StrFieldErrors(loc \o <<"supplier_name">>, sup.supplier_name,
                   "Field cannot be empty or whitespace only")
    \o (IF sup.on_time_delivery_pct < 0
        THEN <<Err(loc \o <<"on_time_delivery_pct">>,
                   "ensure this value is greater than or equal to 0")>>
        ELSE IF sup.on_time_delivery_pct > 100
        THEN <<Err(loc \o <<"on_time_delivery_pct">>,
                   "ensure this value is less than or equal to 100")>>
        ELSE <<>>)
    \o (IF sup.contract_expiry_months < 0
        THEN <<Err(loc \o <<"contract_expiry_months">>,
                   "ensure this value is greater than or equal to 0")>>
        ELSE <<>>)
    \o StrFieldErrors(loc \o <<"region">>, sup.region,
                      "Field cannot be empty or whitespace only")

SupplierErrors(sup, loc) ==
    StrFieldErrors(loc \o <<"supplier_name">>, sup.supplier_name,
                   "Field cannot be empty or whitespace only")
    \o (IF sup.annual_spend_usd <= 0
        THEN <<Err(loc \o <<"annual_spend_usd">>, "ensure this value is greater than 0")>>
        ELSE <<>>)
    \o (IF sup.on_time_delivery_pct < 0
        THEN <<Err(loc \o <<"on_time_delivery_pct">>,
                   "ensure this value is greater than or equal to 0")>>
        ELSE IF sup.on_time_delivery_pct > 100
        THEN <<Err(loc \o <<"on_time_delivery_pct">>,
                   "ensure this value is less than or equal to 100")>>
        ELSE <<>>)
    \o (IF sup.contract_expiry_months < 0
        THEN <<Err(loc \o <<"contract_expiry_months">>,
                   "ensure this value is greater than or equal to 0")>>
        ELSE <<>>)
    \o StrFieldErrors(loc \o <<"region">>, sup.region,
                      "Field cannot be empty or whitespace only")

RECURSIVE SuppliersErrors(_, _)
SuppliersErrors(sups, i) ==
    IF i > Len(sups) THEN <<>>
    ELSE SupplierErrors(sups[i], <<"body", "suppliers", ToString(i - 1)>>)
         \o SuppliersErrors(sups, i + 1)

\* The errors of the RequestValidationError, in field order.
RequestErrors(q) ==
    StrFieldErrors(<<"body", "category">>, q.category,
                   "Category cannot be empty or whitespace only")
    \o (IF Len(q.suppliers) < 1
        THEN <<Err(<<"body", "suppliers">>, "ensure this value has at least 1 items")>>
        ELSE SuppliersErrors(q.suppliers, 1))

\* The validated model: the validators return the stripped strings.
ValidatedRequest(q) ==
    [category |-> StripStr(q.category),
     suppliers |-> [i \in 1..Len(q.suppliers) |->
                      [q.suppliers[i] EXCEPT !.supplier_name = StripStr(@),
                                             !.region = StripStr(@)]]]

(***************************************************************************)
(* The HTTP layer: the response bodies and the error mapping of            *)
(* generate_insights.                                                      *)
(***************************************************************************)
NoOut ==
    [status |-> 0, keys |-> {}, error |-> "", details |-> <<>>, message |-> <<>>,
     detail |-> <<>>, insights |-> NoInsights]

\* validation_exception_handler
ValidationErrorResponse(errors) ==
    [NoOut EXCEPT !.status = 422,
                  !.keys = {"error", "details", "message"},
                  !.error = "Validation Error",
                  !.details = errors,
                  !.message = <<Frag("Invalid input data. Please check the request format.",
                                     "lit")>>]

\* An HTTPException leaves as {"detail": ...}.
HttpError(status_code, detail) ==
    [NoOut EXCEPT !.status = status_code, !.keys = {"detail"}, !.detail = detail]

\* The texts the model uses that contain the substrings the handler looks for.
Markers(txt) ==
    CASE txt = "Failed to parse LLM response as JSON: " -> {"JSON"}
      [] txt = "API key not valid" -> {"API"}
      [] txt = "Invalid JSON payload" -> {"JSON"}
      [] OTHER -> {}

\* word in str(e)
Contains(msg, word) == \E i \in 1..Len(msg) : word \in Markers(msg[i].txt)

\* The checks at the head of the handler, on the validated model: the
\* detail of the HTTPException raised, or <<>>.
SupplierProblem(sup) ==
    IF sup.supplier_name = "" \/ StripStr(sup.supplier_name) = ""
    THEN <<Frag("Supplier at index has an empty or invalid name.", "lit")>>
    ELSE IF sup.annual_spend_usd <= 0
    THEN <<Frag("Supplier '", "lit"), Frag(sup.supplier_name, "req"),
           Frag("' has invalid annual spend (must be > 0).", "lit")>>
    ELSE IF ~(0 <= sup.on_time_delivery_pct /\ sup.on_time_delivery_pct <= 100)
    THEN <<Frag("Supplier '", "lit"), Frag(sup.supplier_name, "req"),
           Frag("' has invalid delivery percentage (must be 0-100).", "lit")>>
    ELSE IF sup.contract_expiry_months < 0
    THEN <<Frag("Supplier '", "lit"), Frag(sup.supplier_name, "req"),
           Frag("' has invalid contract expiry months (must be >= 0).", "lit")>>
    ELSE <<>>

RECURSIVE FirstProblem(_, _)
FirstProblem(sups, i) ==
    IF i > Len(sups) THEN <<>>
    ELSE IF SupplierProblem(sups[i]) # <<>> THEN SupplierProblem(sups[i])
    ELSE FirstProblem(sups, i + 1)

HandlerCheck(m) ==
    IF Len(m.suppliers) = 0
    THEN <<Frag("Supplier list cannot be empty. At least one supplier is required.", "lit")>>
    ELSE FirstProblem(m.suppliers, 1)

\* The except clauses of the handler.
MapError(e) ==
    IF e.type = "ValidationError"
    THEN HttpError(422, <<Frag("Data validation failed: ", "lit")>> \o e.msg)
    ELSE IF Contains(e.msg, "API")
    THEN HttpError(503, <<Frag("LLM service is currently unavailable. Please try again later.",
                               "lit")>>)
    ELSE IF Contains(e.msg, "JSON")
    THEN HttpError(500, <<Frag("Failed to parse LLM response. Please contact support.", "lit")>>)
    ELSE HttpError(500, <<Frag("An error occurred while generating insights: ", "lit")>> \o e.msg)

(***************************************************************************)
(* Inputs: the requests posted and the behaviours of the generation        *)
(* service.                                                                *)
(***************************************************************************)
BaseSupplier ==
    [supplier_name |-> "Acme", annual_spend_usd |-> 100, on_time_delivery_pct |-> 95,
     contract_expiry_months |-> 12, single_source_dependency |-> TRUE, region |-> "EU"]

SupplierVariants ==
    {BaseSupplier}
    \cup {[BaseSupplier EXCEPT !.supplier_name = x] : x \in {"", " "}}
    \cup {[BaseSupplier EXCEPT !.annual_spend_usd = x] : x \in {0, -1}}
    \cup {[BaseSupplier EXCEPT !.on_time_delivery_pct = x] : x \in {-1, 0, 100, 101}}
    \cup {[BaseSupplier EXCEPT !.contract_expiry_months = x] : x \in {-1, 0}}
    \cup {[BaseSupplier EXCEPT !.region = x] : x \in {"", " "}}
    \cup {[BaseSupplier EXCEPT !.annual_spend_usd = 0, !.region = ""]}

SupplierLists == UNION {[1..k -> SupplierVariants] : k \in 0..MaxSuppliers}

AllRequests == [category : {"Steel", "", " "}, suppliers : SupplierLists]

SomeRequests ==
    {[category |-> "Steel", suppliers |-> <<BaseSupplier>>],
     [category |-> "Steel", suppliers |-> <<>>],
     [category |-> " ", suppliers |-> <<[BaseSupplier EXCEPT !.annual_spend_usd = 0]>>]}

Member(k, v) == <<k, ":">> \o v

RECURSIVE Join(_)
Join(ms) ==
    IF ms = <<>> THEN <<>>
    ELSE IF Len(ms) = 1 THEN ms[1]
    ELSE ms[1] \o <<",">> \o Join(Tail(ms))

RenderObject(ms) == <<"{">> \o Join(ms) \o <<"}">>

\* A generator document; an empty value text leaves the member out.
Doc(c, r, k, f) ==
    RenderObject(SelectSeq(
        << Member("\"category\"", c),
           Member("\"overall_risk_level\"", r),
           Member("\"key_risks\"", k),
           Member("\"negotiation_levers\"", <<"[", "\"b\"", "]">>),
           Member("\"recommended_actions_next_90_days\"", <<"[", "\" lever \"", ",", "1", "]">>),
           Member("\"confidence_score\"", f) >>,
        LAMBDA m : Len(m) > 2))

GoodDoc == Doc(<<"\"Steel\"">>, <<"\"High\"">>, <<"[", "\"a\"", "]">>, <<"0.85">>)

DocTexts ==
    {Doc(c, r, k, f) :
        c \in {<<>>, <<"\"Steel\"">>, <<"\"\"">>},
        r \in {<<>>, <<"\"High\"">>, <<"\"Extreme\"">>},
        k \in {<<>>, <<"[", "\"a\"", "]">>, <<"[", "\" \"", "]">>, <<"[", "]">>},
        f \in {<<>>, <<"0.85">>, <<"1.5">>, <<"\"abc\"">>, <<"null">>}}

OtherTexts ==
    {<<>>, <<"s", "o">>, <<"[", "1", "]">>,
     FenceJson \o <<"\n">> \o GoodDoc \o <<"\n">> \o Fence,
     SubSeq(GoodDoc, 1, Len(GoodDoc) - 1),
     FenceJson \o SubSeq(GoodDoc, 1, Len(GoodDoc) - 1) \o Fence}

NoGen == [kind |-> "none", text |-> <<>>, exc |-> NoExc]
GenText(t) == [kind |-> "text", text |-> t, exc |-> NoExc]
GenRaise(e) == [kind |-> "raise", text |-> <<>>, exc |-> e]
GenNoText(e) == [kind |-> "notext", text |-> <<>>, exc |-> e]

\* generate_content raises, or the response carries no text payload.
GenFailures ==
    {GenRaise(Exc("GoogleAPIError", <<Frag(m, "exc")>>)) :
        m \in {"API key not valid", "Deadline exceeded", "Invalid JSON payload"}}
    \cup {GenNoText(Exc("ValueError",
                        <<Frag("response.text requires the response to contain a valid Part",
                               "exc")>>)),
          GenNoText(Exc("AttributeError",
                        <<Frag("NoneType object has no attribute strip", "exc")>>))}

AllGens == GenFailures \cup {GenText(t) : t \in DocTexts \cup OtherTexts}

SomeGens ==
    {GenRaise(Exc("GoogleAPIError", <<Frag("API key not valid", "exc")>>)),
     GenRaise(Exc("GoogleAPIError", <<Frag("Deadline exceeded", "exc")>>)),
     GenNoText(Exc("AttributeError", <<Frag("NoneType object has no attribute strip", "exc")>>)),
     GenText(GoodDoc), GenText(<<"s", "o">>),
     GenText(Doc(<<>>, <<>>, <<>>, <<"null">>))}

(***************************************************************************)
(* One request through POST /generate-insights.                            *)
(***************************************************************************)
NoReq == [category |-> "", suppliers |-> <<>>]

Receive(r, requests) ==
    /\ pc[r] = "Idle"
    /\ \E q \in requests : req' = [req EXCEPT ![r] = q]
    /\ pc' = [pc EXCEPT ![r] = "Received"]
    /\ UNCHANGED <<calls, gen, out, rvars, bvars>>

\* InsightsRequest is validated before the handler body runs.
ValidateInput(r) ==
    /\ pc[r] = "Received"
    /\ IF RequestErrors(req[r]) = <<>>
       THEN /\ pc' = [pc EXCEPT ![r] = "InputValidated"]
            /\ out' = out
       ELSE /\ pc' = [pc EXCEPT ![r] = "Errored"]
            /\ out' = [out EXCEPT ![r] = ValidationErrorResponse(RequestErrors(req[r]))]
    /\ UNCHANGED <<req, calls, gen, rvars, bvars>>

\* The handler's own checks, then the prompt is built.
BuildPrompt(r) ==
    /\ pc[r] = "InputValidated"
    /\ IF HandlerCheck(ValidatedRequest(req[r])) = <<>>
       THEN /\ pc' = [pc EXCEPT ![r] = "PromptBuilt"]
            /\ out' = out
       ELSE /\ pc' = [pc EXCEPT ![r] = "Errored"]
            /\ out' = [out EXCEPT ![r] = HttpError(422, HandlerCheck(ValidatedRequest(req[r])))]
    /\ UNCHANGED <<req, calls, gen, rvars, bvars>>

CallGenerationRetrying(r, gens) ==
    /\ pc[r] = "PromptBuilt"
    /\ calls[r] < 3
    /\ calls' = [calls EXCEPT ![r] = @ + 1]
    /\ \E g \in gens :
         /\ gen' = [gen EXCEPT ![r] = g]
         /\ IF g.kind = "text"
            THEN /\ pc' = [pc EXCEPT ![r] = "GenerationCalled"]
                 /\ out' = out
            ELSE /\ pc' = pc
                 /\ out' = out
    /\ UNCHANGED <<req, rvars, bvars>>

\* self.model.generate_content(full_prompt) and response.text
CallGeneration(r, gens) ==
    /\ pc[r] = "PromptBuilt"
    /\ calls' = [calls EXCEPT ![r] = @ + 1]
    /\ \E g \in gens :
         /\ gen' = [gen EXCEPT ![r] = g]
         /\ IF g.kind = "text"
            THEN /\ pc' = [pc EXCEPT ![r] = "GenerationCalled"]
                 /\ out' = out
            ELSE /\ pc' = [pc EXCEPT ![r] = "Errored"]
                 /\ out' = [out EXCEPT ![r] = MapError(WrapServiceError(g.exc))]
    /\ UNCHANGED <<req, rvars, bvars>>

RepairResponse(r) ==
    /\ pc[r] = "GenerationCalled"
    /\ LET res == Repair(gen[r].text, ValidatedRequest(req[r]).category)
       IN  IF res.ok
           THEN /\ pc' = [pc EXCEPT ![r] = "ResponseRepaired"]
                /\ out' = [out EXCEPT ![r] = [NoOut EXCEPT !.insights = res.resp]]
           ELSE /\ pc' = [pc EXCEPT ![r] = "Errored"]
                /\ out' = [out EXCEPT ![r] = MapError(res.exc)]
    /\ UNCHANGED <<req, calls, gen, rvars, bvars>>

Return(r) ==
    /\ pc[r] = "ResponseRepaired"
    /\ pc' = [pc EXCEPT ![r] = "Returned"]
    /\ out' = [out EXCEPT ![r] = [@ EXCEPT !.status = 200,
                                           !.keys = DOMAIN NoInsights]]
    /\ UNCHANGED <<req, calls, gen, rvars, bvars>>

(***************************************************************************)
(* The repair pipeline step by step, in the order of generate_insights.    *)
(***************************************************************************)
RawText(parts) ==
    parts.pre \o parts.open \o parts.inner \o parts.body \o parts.inner
    \o parts.close \o parts.post

Trim ==
    /\ rstage = "received"
    /\ rtext' = Strip(rtext)
    /\ rstage' = "trimmed"
    /\ UNCHANGED <<rparts, rparsed, hvars, bvars>>

Truncate ==
    /\ rstage = "trimmed"
    /\ rtext' = TruncationFix(rtext)
    /\ rstage' = "fixed"
    /\ UNCHANGED <<rparts, rparsed, hvars, bvars>>

Clean ==
    /\ rstage = "fixed"
    /\ rtext' = CleanJsonResponse(rtext)
    /\ rstage' = "cleaned"
    /\ UNCHANGED <<rparts, rparsed, hvars, bvars>>

Parse ==
    /\ rstage = "cleaned"
    /\ rparsed' = JsonLoads(rtext)
    /\ rstage' = "parsed"
    /\ UNCHANGED <<rparts, rtext, hvars, bvars>>

(***************************************************************************)
(* The backfill step and the construction on a parsed object.              *)
(***************************************************************************)
NoResult == [ok |-> FALSE, data |-> [f \in Fields |-> Absent], resp |-> NoInsights,
             exc |-> NoExc]

Backfill ==
    /\ bstage = "parsed"
    /\ LET fixed == ValidateAndFixResponse(bdata, bcategory)
       IN  /\ bresult' = [NoResult EXCEPT !.ok = fixed.ok, !.data = fixed.data,
                                          !.exc = fixed.exc]
           /\ bstage' = IF fixed.ok THEN "fixed" ELSE "backfill_failed"
    /\ UNCHANGED <<bcategory, bdata, hvars, rvars>>

ConstructResponse ==
    /\ bstage = "fixed"
    /\ LET built == Construct(bresult.data)
       IN  /\ bresult' = [bresult EXCEPT !.ok = built.ok, !.resp = built.resp,
                                         !.exc = built.exc]
           /\ bstage' = IF built.ok THEN "returned" ELSE "rejected"
    /\ UNCHANGED <<bcategory, bdata, hvars, rvars>>

(***************************************************************************)
(* Inputs of the pipeline and of the backfill step.                        *)
(***************************************************************************)
\* {"a": "b", "c": [1,2
ExampleText ==
    <<"{", "\"a\"", ":", " ", "\"b\"", ",", " ", "\"c\"", ":", " ", "[", "1", ",", "2">>

BaseDocs ==
    { <<"{", "}">>,
      <<"{", "\"a\"", ":", "\"b\"", "}">>,
      <<"{", "\"a\"", ":", "{", "\"b\"", ":", "1", "}", "}">>,
      ExampleText \o <<"]", "}">>,
      <<"{", "\"a\"", ":", "{", "\"b\"", ":", "{", "\"c\"", ":", "[", "1", ",", "{", "}", "]",
        "}", "}", "}">> }

Prefixes(d) == {SubSeq(d, 1, k) : k \in 0..Len(d)}

BraceTexts == UNION {[1..k -> {"{", "}"}] : k \in 1..MaxBraceLen}

Bodies == UNION {Prefixes(d) : d \in BaseDocs} \cup BraceTexts

Pads == {Repeat(" ", k) : k \in 0..MaxPad}

RepairInputs ==
    [pre : Pads, open : {<<>>, Fence, FenceJson}, inner : {<<>>, <<"\n">>},
     body : Bodies, close : {<<>>, Fence}, post : Pads]

NoParts == [pre |-> <<>>, open |-> <<>>, inner |-> <<>>, body |-> <<>>, close |-> <<>>,
            post |-> <<>>]

SomeItems == {<<Item(Str("a"))>>, <<Item(Str(" "))>>}

ParsedObjects ==
    {[f \in Fields |->
        CASE f = "category" -> c
          [] f = "overall_risk_level" -> r
          [] f = "key_risks" -> k
          [] f = "negotiation_levers" -> n
          [] f = "recommended_actions_next_90_days" -> a
          [] f = "confidence_score" -> s] :
        c \in {Absent, Null, Str(""), Str(" "), Str("Steel"), List(<<>>), Num(150)},
        r \in {Absent, Null, Str("Low"), Str("High"), Str("Extreme"), Num(100)},
        k \in {Absent, Null, Str("abc"), List(<<>>), List(<<Item(Null)>>),
               List(<<Item(Str(" lever ")), Item(Num(100))>>)} \cup {List(i) : i \in SomeItems},
        n \in {Absent} \cup {List(i) : i \in SomeItems},
        a \in {Absent} \cup {List(i) : i \in SomeItems},
        s \in {Absent, Null, Str("abc"), Str("0.85"), Bool(TRUE), List(<<>>),
               Num(-300), Num(50), Num(85), Num(99), Num(150)}}

(***************************************************************************)
(* Specifications.                                                         *)
(***************************************************************************)
HandlerIdle(R) ==
    /\ pc = [r \in R |-> "Idle"]
    /\ req = [r \in R |-> NoReq]
    /\ calls = [r \in R |-> 0]
    /\ gen = [r \in R |-> NoGen]
    /\ out = [r \in R |-> NoOut]

RepairIdle ==
    /\ rstage = "off"
    /\ rparts = NoParts
    /\ rtext = <<>>
    /\ rparsed = [ok |-> FALSE, value |-> <<>>]

BackfillIdle ==
    /\ bstage = "off"
    /\ bcategory = ""
    /\ bdata = [f \in Fields |-> Absent]
    /\ bresult = NoResult

\* One request, every input.
Init == HandlerIdle({1}) /\ RepairIdle /\ BackfillIdle

Next ==
    \E r \in {1} :
        \/ Receive(r, AllRequests)
        \/ ValidateInput(r)
        \/ BuildPrompt(r)
        \/ CallGeneration(r, AllGens)
        \/ RepairResponse(r)
        \/ Return(r)

Spec == Init /\ [][Next]_vars

\* Overlapping requests.
InitOverlap == HandlerIdle(1..NumRequests) /\ RepairIdle /\ BackfillIdle

NextOverlap ==
    \E r \in 1..NumRequests :
        \/ Receive(r, SomeRequests)
        \/ ValidateInput(r)
        \/ BuildPrompt(r)
        \/ CallGeneration(r, SomeGens)
        \/ RepairResponse(r)
        \/ Return(r)

SpecOverlap == InitOverlap /\ [][NextOverlap]_vars

\* The repair pipeline on every input text.
InitRepair ==
    /\ HandlerIdle({1}) /\ BackfillIdle
    /\ rstage = "received"
    /\ rparts \in RepairInputs
    /\ rtext = RawText(rparts)
    /\ rparsed = [ok |-> FALSE, value |-> <<>>]

NextRepair == Trim \/ Truncate \/ Clean \/ Parse

SpecRepair == InitRepair /\ [][NextRepair]_vars

\* The backfill step and the construction on every parsed object.
InitBackfill ==
    /\ HandlerIdle({1}) /\ RepairIdle
    /\ bstage = "parsed"
    /\ bcategory = "Steel"
    /\ bdata \in ParsedObjects
    /\ bresult = NoResult

NextBackfill == Backfill \/ ConstructResponse

SpecBackfill == InitBackfill /\ [][NextBackfill]_vars

(***************************************************************************)
(* Properties.                                                             *)
(***************************************************************************)
Requests == DOMAIN pc

SupplierOffences(sup, loc) ==
    (IF sup.supplier_name \in BlankStrs THEN {loc \o <<"supplier_name">>} ELSE {})
    \cup (IF sup.region \in BlankStrs THEN {loc \o <<"region">>} ELSE {})
    \cup (IF sup.annual_spend_usd <= 0 THEN {loc \o <<"annual_spend_usd">>} ELSE {})
    \cup (IF sup.on_time_delivery_pct < 0 \/ sup.on_time_delivery_pct > 100
          THEN {loc \o <<"on_time_delivery_pct">>} ELSE {})
    \cup (IF sup.contract_expiry_months < 0 THEN {loc \o <<"contract_expiry_months">>} ELSE {})

\* The fields of a request that violate an input constraint.
OffendingFields(q) ==
    (IF q.category \in BlankStrs THEN {<<"body", "category">>} ELSE {})
    \cup (IF Len(q.suppliers) = 0 THEN {<<"body", "suppliers">>} ELSE {})
    \cup UNION {SupplierOffences(q.suppliers[i], <<"body", "suppliers", ToString(i - 1)>>) :
                  i \in 1..Len(q.suppliers)}

\* C1: a request that violates an input constraint ends with the 422 body
\* {error, details, message}, its details name exactly the offending fields
\* (suppliers when the list is empty), and the generation client is not
\* invoked for it.
C1_InvalidInputRejectedBeforeGeneration ==
    \A r \in Requests :
        (pc[r] \notin {"Idle", "Received"} /\ OffendingFields(req[r]) # {}) =>
            /\ pc[r] = "Errored"
            /\ calls[r] = 0
            /\ gen[r] = NoGen
            /\ out[r].status = 422
            /\ out[r].keys = {"error", "details", "message"}
            /\ {out[r].details[i].field : i \in 1..Len(out[r].details)}
                   = OffendingFields(req[r])

C1_Witness ==
    /\ pc[1] = "Errored"
    /\ req[1].category = "Steel"
    /\ req[1].suppliers = <<>>
    /\ out[1].status = 422
    /\ <<"body", "suppliers">> \in {out[1].details[i].field : i \in 1..Len(out[1].details)}
    /\ calls[1] = 0

\* C2: when the generation call fails (it raises, or the response has no
\* text payload), the request ends with the 503 outcome whatever the text of
\* the failure.
C2_GenerationFailureIs503 ==
    \A r \in Requests :
        gen[r].kind \in {"raise", "notext"} => (pc[r] = "Errored" /\ out[r].status = 503)

AllLiteral(msg) == \A i \in 1..Len(msg) : msg[i].src = "lit"

\* C3: an error body holds no internal diagnostic text, neither raw
\* generator output nor the text of an internal exception, and a parse
\* failure returns only the fixed generic message.
C3_NoInternalTextInErrorBody ==
    \A r \in Requests :
        pc[r] = "Errored" =>
            /\ AllLiteral(out[r].detail)
            /\ AllLiteral(out[r].message)
            /\ (gen[r].kind = "text" /\ ~IsJson(RepairedText(gen[r].text))) =>
                   out[r].detail =
                       <<Frag("Failed to parse LLM response. Please contact support.", "lit")>>

ListClean(l) == Len(l) >= 1 /\ \A i \in 1..Len(l) : l[i] \notin BlankStrs

\* C4: a response that is returned has a risk level of the enumeration,
\* three non-empty lists without blank entries, a confidence score within
\* [0.70, 0.98] and a non-empty category.
C4_ReturnedResponseWellFormed ==
    bstage = "returned" =>
        /\ bresult.resp.overall_risk_level \in {"Low", "Medium", "High"}
        /\ ListClean(bresult.resp.key_risks)
        /\ ListClean(bresult.resp.negotiation_levers)
        /\ ListClean(bresult.resp.recommended_actions_next_90_days)
        /\ bresult.resp.confidence_score >= 70
        /\ bresult.resp.confidence_score <= 98
        /\ bresult.resp.category # ""

C4_Witness ==
    /\ bstage = "returned"
    /\ bdata["confidence_score"] = Num(150)
    /\ bdata["overall_risk_level"] = Str("Extreme")
    /\ bdata["key_risks"] = Absent
    /\ bresult.resp.confidence_score = 98
    /\ bresult.resp.overall_risk_level = "Medium"

\* The reference of the backfill step, field by field.
RefEmpty(v) == v \in {Str(""), Null, List(<<>>), Obj(<<>>)}

RefField(f, v, category) ==
    CASE f = "category" -> IF v = Absent \/ RefEmpty(v) THEN Str(category) ELSE v
      [] f = "overall_risk_level" ->
           IF v \in {Str("Low"), Str("Medium"), Str("High")} THEN v ELSE Str("Medium")
      [] OTHER ->
           IF v = Absent \/ v.t # "list" \/ v.l = <<>>
           THEN List(<<Item(Str(Placeholder(f)))>>)
           ELSE v

\* C5: the backfill step agrees with the reference on every parsed object:
\* category, risk level and the lists as the reference gives them, an
\* absent confidence score becomes 0.85 and any other is clamped into
\* [0.70, 0.98] (a number to its clamped value).
C5_BackfillAgreesWithReference ==
    bstage \in {"fixed", "backfill_failed"} =>
        /\ bstage = "fixed"
        /\ \A f \in Fields \ {"confidence_score"} :
               bresult.data[f] = RefField(f, bdata[f], bcategory)
        /\ bdata["confidence_score"] = Absent =>
               bresult.data["confidence_score"] = Num(85)
        /\ bdata["confidence_score"] # Absent =>
               /\ bresult.data["confidence_score"].t = "num"
               /\ bresult.data["confidence_score"].n >= 70
               /\ bresult.data["confidence_score"].n <= 98
        /\ bdata["confidence_score"].t = "num" =>
               bresult.data["confidence_score"].n
                   = Max(70, Min(98, bdata["confidence_score"].n))

BadField(f, v) ==
    CASE f = "category" -> v = Absent \/ v.t # "str" \/ v.s = ""
      [] f = "overall_risk_level" -> v \notin {Str("Low"), Str("Medium"), Str("High")}
      [] f = "confidence_score" -> v.t # "num" \/ v.n < 70 \/ v.n > 98
      [] OTHER -> v = Absent \/ v.t # "list" \/ v.l = <<>>

\* C6: on a parsed object with a single bad field (missing, of the wrong
\* type or out of range, a non-numeric or null confidence score included)
\* the backfill step completes and puts the default in place of that field.
C6_BackfillNeverFailsOnOneBadField ==
    (bstage # "parsed" /\ Cardinality({f \in Fields : BadField(f, bdata[f])}) = 1) =>
        /\ bstage # "backfill_failed"
        /\ bdata["confidence_score"].t \notin {"num", "absent"} =>
               bresult.data["confidence_score"] = Num(85)

Trimmed == Strip(RawText(rparts))

Deficit(t) == Count(t, "{") - Count(t, "}")

AppendsBraces(before, after, k) ==
    /\ Len(after) = Len(before) + k
    /\ SubSeq(after, 1, Len(before)) = before
    /\ \A i \in (Len(before) + 1)..Len(after) : after[i] = "}"

\* C7 (as amended): when the trimmed text does not end with } and has more
\* { than }, the truncation step appends exactly (opens - closes) closing
\* braces and changes nothing else; for the text {"a": "b", "c": [1,2 that
\* is one closing brace, and the repaired text does not parse.
C7_TruncationAppendsBraceDeficit ==
    /\ (rstage = "fixed" /\ ~EndsWith(Trimmed, <<"}">>) /\ Deficit(Trimmed) > 0) =>
           AppendsBraces(Trimmed, rtext, Deficit(Trimmed))
    /\ (rstage = "fixed" /\ RawText(rparts) = ExampleText) =>
           AppendsBraces(ExampleText, rtext, 1)
    /\ (rstage = "parsed" /\ RawText(rparts) = ExampleText) => ~rparsed.ok

C7_Witness ==
    /\ rstage = "parsed"
    /\ RawText(rparts) = ExampleText
    /\ rtext = ExampleText \o <<"}">>
    /\ ~rparsed.ok

\* C7 as stated: for the text {"a": "b", "c": [1,2 the step appends exactly
\* two closing braces and the repaired text parses.
C7_ExampleGetsTwoBraces ==
    /\ (rstage = "fixed" /\ ~EndsWith(Trimmed, <<"}">>) /\ Deficit(Trimmed) > 0) =>
           AppendsBraces(Trimmed, rtext, Deficit(Trimmed))
    /\ (rstage = "fixed" /\ RawText(rparts) = ExampleText) =>
           AppendsBraces(ExampleText, rtext, 2)
    /\ (rstage = "parsed" /\ RawText(rparts) = ExampleText) => rparsed.ok

IsObjectText(t) == IsJson(t) /\ IsObject(NoWs(t))

\* C8: on a raw text that is a valid JSON object (a minified one in
\* particular) the pipeline hands on the object that parsing the raw text
\* directly gives.
C8_RepairIdempotentOnValidJson ==
    (rstage = "parsed" /\ IsObjectText(RawText(rparts))) =>
        (rparsed.ok /\ rparsed = JsonLoads(RawText(rparts)))

C8_Witness ==
    /\ rstage = "parsed"
    /\ rparts.body = <<"{", "\"a\"", ":", "{", "\"b\"", ":", "1", "}", "}">>
    /\ rparts.open = <<>>
    /\ rparts.close = <<>>
    /\ rparts.inner = <<>>
    /\ rparts.pre = <<>>
    /\ rparts.post = <<>>
    /\ rparsed.ok

FencedLacking ==
    /\ rparts.open # <<>>
    /\ rparts.close = Fence
    /\ ~EndsWith(Strip(rparts.body), <<"}">>)
    /\ Deficit(Strip(rparts.body)) > 0
    /\ IsJson(Strip(rparts.body) \o Repeat("}", Deficit(Strip(rparts.body))))

\* C9: the fence markers are removed before the braces are counted and
\* appended: for a fenced response whose JSON body lacks k closing braces
\* the repaired text is the body followed by the k braces, and it parses.
C9_FenceStrippedBeforeBraces ==
    /\ (rstage \in {"cleaned", "parsed"} /\ FencedLacking) =>
           rtext = Strip(rparts.body) \o Repeat("}", Deficit(Strip(rparts.body)))
    /\ (rstage = "parsed" /\ FencedLacking) => rparsed.ok

Order ==
    {<<"Idle", "Received">>, <<"Received", "InputValidated">>,
     <<"InputValidated", "PromptBuilt">>, <<"PromptBuilt", "GenerationCalled">>,
     <<"GenerationCalled", "ResponseRepaired">>, <<"ResponseRepaired", "Returned">>}

Terminal == {"Returned", "Errored"}

StepInOrder(r) ==
    /\ pc'[r] # pc[r] =>
           \/ <<pc[r], pc'[r]>> \in Order
           \/ (pc[r] \notin Terminal \cup {"Idle"} /\ pc'[r] = "Errored")
    /\ pc[r] \in Terminal => (pc'[r] = pc[r] /\ calls'[r] = calls[r] /\ out'[r] = out[r])
    /\ calls'[r] # calls[r] =>
           /\ pc[r] = "PromptBuilt"
           /\ pc'[r] \in {"GenerationCalled", "Errored"}
           /\ calls[r] = 0
           /\ calls'[r] = 1

\* C10: every request goes through Received, InputValidated, PromptBuilt,
\* GenerationCalled, ResponseRepaired in that order and ends in Returned or
\* in Errored, which it never leaves; the generation client is invoked at
\* most once per request and never after a failure, with requests
\* overlapping.
C10_LifecycleInOrderOneCall == [][\A r \in Requests : StepInOrder(r)]_vars

C10_Witness ==
    /\ pc[1] = "Errored"
    /\ calls[1] = 1
    /\ gen[1].kind = "raise"
    /\ pc[2] = "GenerationCalled"
    /\ calls[2] = 1

====
